---- MODULE Spec2Model ----
(***************************************************************************)
(* A model of tagmyrebase.py: one invocation of main() after another       *)
(* against a git repository.  The repository (branch tips, tags, reflog    *)
(* files, the @{upstream} configuration) is the state the tool reads and   *)
(* writes; main() is cut at its subprocess calls into the steps Start,     *)
(* Resolve, TagUpstream, TagHead and BranchHead.                           *)
(***************************************************************************)
EXTENDS Integers, Sequences, FiniteSets, TLC

VARIABLES
    heads,            \* repository: refs/heads, branch name -> commit
    HEAD,             \* repository: the commit HEAD resolves to
    tags,             \* repository: refs/tags, name -> [commit, annotated, message]
    reflogs,          \* repository: .git/logs/refs/heads/<name>, name -> raw lines
    config,           \* repository: what `git rev-parse --revs-only @{upstream}` gives
    args,             \* main: the parsed command line
    t,                \* main: datetime.now() of the running invocation
    refs,             \* main: the snapshot get_refs() took
    upstream_commit,  \* main: result of get_upstream_commit, None before
    source,           \* main: its provenance, "reflog" or "config"
    pc,               \* main: the step the invocation is at
    exitStatus,       \* how the last invocation ended
    configQueries,    \* history: @{upstream} queries of this invocation
    writes            \* history: write commands of this invocation

vars == <<heads, HEAD, tags, reflogs, config, args, t, refs, upstream_commit,
          source, pc, exitStatus, configQueries, writes>>

repoVars == <<heads, HEAD, tags, reflogs, config>>

---------------------------------------------------------------------------
\* Bounds of the model.

\* Most raw lines over all reflog files of the initial repository (Spec).
MaxLogLines == 2
\* Most raw lines of the one reflog file of the initial repository (SpecLog).
MaxLogLen == 3
\* An invocation starts only while the repository holds fewer tags than this.
MaxTags == 3

---------------------------------------------------------------------------
\* Values.

None == "None"

\* Commits of the repository: c1 is the parent of c2, c3 is an unrelated root.
Commits == {"c1", "c2", "c3"}

Parent(c) == IF c = "c2" THEN "c1" ELSE None

RECURSIVE IsAncestor(_, _)
\* candidate is in the ancestry of descendant (by zero or more commits)
IsAncestor(candidate, descendant) ==
    IF descendant = None THEN FALSE
    ELSE IF candidate = descendant THEN TRUE
    ELSE IsAncestor(candidate, Parent(descendant))

\* A Python dict as a function: d[k] = v
Put(d, k, v) == [x \in DOMAIN d \cup {k} |-> IF x = k THEN v ELSE d[x]]

EmptyDict == [x \in {} |-> None]

\* Results of the functions that can raise.
Ok(v) == [ok |-> TRUE, val |-> v, exc |-> "", why |-> ""]

Raise(e, w) == [ok |-> FALSE, val |-> None, exc |-> e, why |-> w]

---------------------------------------------------------------------------
\* Names and name templates.

NoStamp == <<>>

\* A ref name: its literal text and what {YMDN} and {YMDHMS} expanded to.
Name(base, ymdn, ymdhms) == [base |-> base, ymdn |-> ymdn, ymdhms |-> ymdhms]

Plain(s) == Name(s, NoStamp, NoStamp)

\* The text of a name, as it appears in a reflog message.
NameStr(n) ==
    n.base \o (IF n.ymdn = NoStamp THEN "" ELSE ToString(n.ymdn))
           \o (IF n.ymdhms = NoStamp THEN "" ELSE ToString(n.ymdhms))

\* A format string: its literal text and the placeholders it holds.
Template(base, ymdn, ymdhms) == [base |-> base, YMDN |-> ymdn, YMDHMS |-> ymdhms]

\* An option that was not given (argparse's None; "" is as falsy).
NoArg == Template("", FALSE, FALSE)

\* format_string.format(YMDN=ymdn, YMDHMS=ymdhms)
Format(format_string, ymdn, ymdhms) ==
    Name(format_string.base,
         IF format_string.YMDN THEN ymdn ELSE NoStamp,
         IF format_string.YMDHMS THEN ymdhms ELSE NoStamp)

\* get_re_for_format_string(format_string).match(tag): the same literal text
\* with a date.counter where {YMDN} stands and a date_time where {YMDHMS} does.
MatchesFormat(format_string, tag) ==
    /\ tag.base = format_string.base
    /\ (tag.ymdn # NoStamp) = format_string.YMDN
    /\ (tag.ymdhms # NoStamp) = format_string.YMDHMS

\* get_keys_for_value(d, value)
get_keys_for_value(d, value) == {k \in DOMAIN d : d[k] = value}

\* xrange(1, 100000) of get_expanded_name
XRangeStop == 100000

RECURSIVE FirstFreeFrom(_, _, _, _)
\* The for loop of get_expanded_name from counter n on: the first n whose
\* proposed tag is not in refs["tags"], 0 when the range is exhausted.
FirstFreeFrom(format_string, time, r, n) ==
    IF n >= XRangeStop THEN 0
    ELSE IF Format(format_string, <<time.ymd, n>>, <<time.ymd, time.hms>>)
              \notin DOMAIN r.tags
         THEN n
         ELSE FirstFreeFrom(format_string, time, r, n + 1)

FirstFree(format_string, time, r) == FirstFreeFrom(format_string, time, r, 1)

get_expanded_name(format_string, time, r) ==
    IF format_string.YMDN
    THEN LET n == FirstFree(format_string, time, r)
         IN  IF n = 0
             THEN Raise("RuntimeError", "100,000 tags in one day is too many tags")
             ELSE Ok(Format(format_string, <<time.ymd, n>>, <<time.ymd, time.hms>>))
    ELSE Ok(Format(format_string, None, <<time.ymd, time.hms>>))

\* make_tag_message(upstream_commit)
make_tag_message(commit) == "Onto: " \o commit

---------------------------------------------------------------------------
\* The reflog reader.

\* A raw line of a reflog file, "old new name <email> date tz\tmessage\n":
\* its fields (the two commits, the date and the timezone are always there),
\* whether it holds a ">" at all (gt), whether a tab follows the first ">"
\* (tab), whether a space follows it directly (sp), and the words of the
\* message after the tab.
RawLine(gt, tab, sp, message) ==
    [old |-> "c1", new |-> "c2", email |-> "Ivan Kozik <ivan@ludios.org>",
     date |-> "1377313727", tz |-> "+0000",
     gt |-> gt, tab |-> tab, sp |-> sp, message |-> message]

\* The body of get_reflog_entries' loop on one line.
ParseLine(line) ==
    IF ~line.gt
    THEN Raise("ValueError", "need more than 1 value to unpack")
    ELSE IF ~line.tab
    THEN Raise("IndexError", "list index out of range")
    ELSE IF ~line.sp
    THEN Raise("RuntimeError", "Corrupt reflog?")
    ELSE Ok([old |-> line.old, new |-> line.new, email |-> line.email,
             date |-> line.date, tz |-> line.tz, message |-> line.message])

RECURSIVE ParseLinesSkipping(_, _)
\* A variant that skips the lines that do not parse.
ParseLinesSkipping(lines, acc) ==
    IF lines = <<>> THEN Ok(acc)
    ELSE LET r == ParseLine(Head(lines))
         IN  ParseLinesSkipping(Tail(lines), IF r.ok THEN Append(acc, r.val) ELSE acc)

RECURSIVE ParseLines(_, _)
\* The entries of lines after those of acc, in the file's order; the first
\* line that does not parse raises.
ParseLines(lines, acc) ==
    IF lines = <<>> THEN Ok(acc)
    ELSE LET r == ParseLine(Head(lines))
         IN  IF r.ok THEN ParseLines(Tail(lines), Append(acc, r.val)) ELSE r

\* list(get_reflog_entries(branch_name))
get_reflog_entries(branch_name) ==
    IF branch_name \notin DOMAIN reflogs
    THEN Raise("IOError", "No such file or directory")
    ELSE ParseLines(reflogs[branch_name], <<>>)

\* reversed(l)
reversed(l) == [i \in 1..Len(l) |-> l[Len(l) + 1 - i]]

\* A variant that looks for the line git writes to HEAD's reflog,
\* "rebase finished: returning to refs/heads/<branch>".
StartsWithReturningTo(message, branch_name) ==
    /\ Len(message) >= 5
    /\ message[1] = "rebase"
    /\ message[2] = "finished:"
    /\ message[3] = "returning"
    /\ message[4] = "to"
    /\ message[5] = "refs/heads/" \o NameStr(branch_name)

\* A variant that looks at "rebase finished:" alone.
StartsWithRebaseFinishedOnly(message, branch_name) ==
    /\ Len(message) >= 3
    /\ message[1] = "rebase"
    /\ message[2] = "finished:"

\* message.startswith("rebase finished: refs/heads/%s onto " % (branch_name,))
StartsWithRebaseFinished(message, branch_name) ==
    /\ Len(message) >= 5
    /\ message[1] = "rebase"
    /\ message[2] = "finished:"
    /\ message[3] = "refs/heads/" \o NameStr(branch_name)
    /\ message[4] = "onto"

RECURSIVE FirstRebaseOnto(_, _)
\* The for loop of get_last_rebase_onto over entries.
FirstRebaseOnto(entries, branch_name) ==
    IF entries = <<>> THEN None
    ELSE IF StartsWithRebaseFinished(Head(entries).message, branch_name)
         THEN Head(entries).message[Len(Head(entries).message)]
         ELSE FirstRebaseOnto(Tail(entries), branch_name)

\* A variant that scans the entries oldest first.
ScanForward(entries) == entries

\* The order get_last_rebase_onto scans the entries in.
ScanOrder(entries) == reversed(entries)

get_last_rebase_onto(branch_name) ==
    LET r == get_reflog_entries(branch_name)
    IN  IF r.ok THEN Ok(FirstRebaseOnto(ScanOrder(r.val), branch_name)) ELSE r

---------------------------------------------------------------------------
\* The upstream resolver.

\* all_equal(l): the smallest and the largest element of l are the same
all_equal(l) == \A x, y \in l : x = y

\* The heads get_upstream_commit_from_reflog reads the reflogs of.
CandidateHeads(r) == get_keys_for_value(r.heads, r.HEAD)

\* What get_upstream_commit_from_reflog(refs) can end in.  The heads are read
\* in the dict's order, so of several reflogs that do not parse any one may be
\* the first to raise.
get_upstream_commit_from_reflog(r) ==
    LET hs == CandidateHeads(r)
        last == [b \in hs |-> get_last_rebase_onto(b)]
        upstreams == {last[b].val : b \in {h \in hs : last[h].ok}} \ {None}
    IN  IF hs = {}
        THEN {Raise("UnknownUpstream", "HEAD is not on any branches")}
        ELSE IF \E b \in hs : ~last[b].ok
        THEN {last[b] : b \in {h \in hs : ~last[h].ok}}
        ELSE IF upstreams = {}
        THEN {Raise("UnknownUpstream", "Could not find a rebase in reflogs")}
        ELSE IF ~all_equal(upstreams)
        THEN {Raise("UnknownUpstream", "different upstream commits")}
        ELSE {Ok(u) : u \in upstreams}

\* A variant without the check for rev-parse printing nothing.
ConfigWithoutEmptyCheck(printed) ==
    IF printed = "CalledProcessError"
    THEN Raise("UnknownUpstream", "CalledProcessError")
    ELSE Ok(printed)

\* get_upstream_commit_from_config(git_exe), given what rev-parse printed
get_upstream_commit_from_config(printed) ==
    IF printed = "CalledProcessError"
    THEN Raise("UnknownUpstream", "CalledProcessError")
    ELSE IF printed = ""
    THEN Raise("UnknownUpstream", "No upstream configured for branch")
    ELSE Ok(printed)

\* A variant that falls back unless the reflogs disagree.
FallsBackUnlessAmbiguous(fromReflog) ==
    /\ ~fromReflog.ok
    /\ fromReflog.exc = "UnknownUpstream"
    /\ fromReflog.why # "different upstream commits"

\* Whether get_upstream_commit, after this end of the reflog path, goes on to
\* the configuration: its except clause.
FallsBackToConfig(fromReflog) == ~fromReflog.ok /\ fromReflog.exc = "UnknownUpstream"

\* What get_upstream_commit(git_exe, refs) can end in: the result, its
\* provenance and the number of @{upstream} queries made.
get_upstream_commit(r, printed) ==
    {IF fr.ok
     THEN [res |-> fr, source |-> "reflog", queries |-> 0]
     ELSE IF FallsBackToConfig(fr)
     THEN [res |-> get_upstream_commit_from_config(printed),
           source |-> "config", queries |-> 1]
     ELSE [res |-> fr, source |-> None, queries |-> 0]
     : fr \in get_upstream_commit_from_reflog(r)}

---------------------------------------------------------------------------
\* main().

\* How an invocation stands: not run yet, running, ended by sys.exit(code) or
\* by falling off main (code 0), or ended by an uncaught exception.
NotRun == [kind |-> "none", code |-> 0, exc |-> "", why |-> ""]

Running == [kind |-> "running", code |-> 0, exc |-> "", why |-> ""]

Exit(code, why) == [kind |-> "exit", code |-> code, exc |-> "", why |-> why]

Uncaught(e, why) == [kind |-> "exception", code |-> 1, exc |-> e, why |-> why]

\* get_refs(git_exe): of the tags only those with a dereference line, the
\* annotated ones, each with the commit it points to.
get_refs ==
    [tags |-> [n \in {x \in DOMAIN tags : tags[x].annotated} |-> tags[n].commit],
     heads |-> heads,
     HEAD |-> HEAD]

\* The times datetime.now() gives: one day and the next.
Times == {[ymd |-> 1, hms |-> 1], [ymd |-> 2, hms |-> 1]}

NotBefore(a, b) == a.ymd > b.ymd \/ (a.ymd = b.ymd /\ a.hms >= b.hms)

\* main() up to get_refs: the arguments are checked, the time and the refs read.
Start ==
    /\ pc \in {"idle", "exit"}
    /\ Cardinality(DOMAIN tags) < MaxTags
    /\ configQueries' = 0
    /\ writes' = <<>>
    /\ upstream_commit' = None
    /\ source' = None
    /\ IF args.tag_head = NoArg /\ args.branch_head = NoArg /\ args.tag_upstream = NoArg
       THEN /\ pc' = "exit"
            /\ exitStatus' = Exit(1, "Must specify one or more of --tag-head, --branch-head, or --tag-upstream")
            /\ UNCHANGED <<t, refs>>
       ELSE /\ \E now \in Times : NotBefore(now, t) /\ t' = now
            /\ refs' = get_refs
            /\ pc' = "resolve"
            /\ exitStatus' = Running
    /\ UNCHANGED <<repoVars, args>>

\* A variant whose except clause does not leave main().
ResolveCarriesOn ==
    /\ pc = "resolve"
    /\ IF args.tag_head = NoArg /\ args.tag_upstream = NoArg
       THEN /\ pc' = "tag_upstream"
            /\ UNCHANGED <<upstream_commit, source, configQueries, exitStatus>>
       ELSE \E out \in get_upstream_commit(refs, config) :
              /\ configQueries' = configQueries + out.queries
              /\ IF out.res.ok
                 THEN /\ upstream_commit' = out.res.val
                      /\ source' = out.source
                      /\ pc' = "tag_upstream"
                      /\ UNCHANGED exitStatus
                 ELSE IF out.res.exc = "UnknownUpstream"
                 THEN /\ pc' = "tag_upstream"
                      /\ UNCHANGED <<upstream_commit, source, exitStatus>>
                 ELSE /\ pc' = "exit"
                      /\ exitStatus' = Uncaught(out.res.exc, out.res.why)
                      /\ UNCHANGED <<upstream_commit, source>>
    /\ UNCHANGED <<repoVars, args, t, refs, writes>>

\* main(): "if args.tag_head or args.tag_upstream", the call of
\* get_upstream_commit and its except clause.
Resolve ==
    /\ pc = "resolve"
    /\ IF args.tag_head = NoArg /\ args.tag_upstream = NoArg
       THEN /\ pc' = "tag_upstream"
            /\ UNCHANGED <<upstream_commit, source, configQueries, exitStatus>>
       ELSE \E out \in get_upstream_commit(refs, config) :
              /\ configQueries' = configQueries + out.queries
              /\ IF out.res.ok
                 THEN /\ upstream_commit' = out.res.val
                      /\ source' = out.source
                      /\ pc' = "tag_upstream"
                      /\ UNCHANGED exitStatus
                 ELSE /\ pc' = "exit"
                      /\ exitStatus' = IF out.res.exc = "UnknownUpstream"
                                       THEN Exit(2, out.res.why)
                                       ELSE Uncaught(out.res.exc, out.res.why)
                      /\ UNCHANGED <<upstream_commit, source>>
    /\ UNCHANGED <<repoVars, args, t, refs, writes>>

\* `git tag --annotate --message <message> <name> <target>`: git refuses a
\* name that is a tag already, and check_call raises.
GitTag(name, target, message, next) ==
    /\ writes' = Append(writes, [cmd |-> "tag", name |-> name, target |-> target,
                                 existed |-> name \in DOMAIN tags])
    /\ IF name \in DOMAIN tags
       THEN /\ tags' = tags
            /\ pc' = "exit"
            /\ exitStatus' = Uncaught("CalledProcessError", "tag already exists")
       ELSE /\ tags' = Put(tags, name, [commit |-> target, annotated |-> TRUE,
                                        message |-> message])
            /\ pc' = next
            /\ UNCHANGED exitStatus

\* One tagging block of main(): nothing when the option is absent or a tag of
\* this format is on the commit in refs already, else the name is expanded
\* against refs and the tag created on target.
TagStep(format_string, commit, target, message, next) ==
    IF format_string = NoArg
    THEN pc' = next /\ UNCHANGED <<tags, writes, exitStatus>>
    ELSE IF \E tag \in get_keys_for_value(refs.tags, commit) :
                MatchesFormat(format_string, tag)
    THEN pc' = next /\ UNCHANGED <<tags, writes, exitStatus>>
    ELSE LET e == get_expanded_name(format_string, t, refs)
         IN  IF e.ok
             THEN GitTag(e.val, target, message, next)
             ELSE /\ pc' = "exit"
                  /\ exitStatus' = Uncaught(e.exc, e.why)
                  /\ UNCHANGED <<tags, writes>>

\* main(): "if args.tag_upstream"
TagUpstream ==
    /\ pc = "tag_upstream"
    /\ TagStep(args.tag_upstream, upstream_commit, upstream_commit, "", "tag_head")
    /\ UNCHANGED <<heads, HEAD, reflogs, config, args, t, refs, upstream_commit,
                   source, configQueries>>

\* main(): "if args.tag_head"; git tags the HEAD of the repository.
TagHead ==
    /\ pc = "tag_head"
    /\ TagStep(args.tag_head, refs.HEAD, HEAD, make_tag_message(upstream_commit),
               "branch_head")
    /\ UNCHANGED <<heads, HEAD, reflogs, config, args, t, refs, upstream_commit,
                   source, configQueries>>

\* The line `git branch -f` appends to the branch's reflog.
BranchLine(existed) ==
    RawLine(TRUE, TRUE, TRUE,
            IF existed THEN <<"branch:", "Reset", "to", "HEAD">>
                       ELSE <<"branch:", "Created", "from", "HEAD">>)

\* main(): "if args.branch_head", and the end of main().
BranchHead ==
    /\ pc = "branch_head"
    /\ pc' = "exit"
    /\ IF args.branch_head = NoArg
       THEN exitStatus' = Exit(0, "") /\ UNCHANGED <<heads, reflogs, writes>>
       ELSE LET e == get_expanded_name(args.branch_head, t, refs)
                branch_name == e.val
            IN  IF ~e.ok
                THEN exitStatus' = Uncaught(e.exc, e.why) /\ UNCHANGED <<heads, reflogs, writes>>
                ELSE IF branch_name \in DOMAIN refs.heads /\ refs.heads[branch_name] = refs.HEAD
                THEN exitStatus' = Exit(0, "") /\ UNCHANGED <<heads, reflogs, writes>>
                ELSE /\ exitStatus' = Exit(0, "")
                     /\ heads' = Put(heads, branch_name, HEAD)
                     /\ reflogs' = Put(reflogs, branch_name,
                                       Append(IF branch_name \in DOMAIN reflogs
                                              THEN reflogs[branch_name] ELSE <<>>,
                                              BranchLine(branch_name \in DOMAIN heads)))
                     /\ writes' = Append(writes, [cmd |-> "branch", name |-> branch_name,
                                                  target |-> HEAD,
                                                  existed |-> branch_name \in DOMAIN heads])
    /\ UNCHANGED <<HEAD, tags, config, args, t, refs, upstream_commit, source,
                   configQueries>>

Next == Start \/ Resolve \/ TagUpstream \/ TagHead \/ BranchHead

---------------------------------------------------------------------------
\* The repositories and command lines an invocation starts from.

master == Plain("master")

topic == Plain("topic")

\* "rebase finished: refs/heads/<branch> onto <commit>", what git rebase
\* writes to the reflog of the branch it rebased.
FinishedOnto(branch_name, commit) ==
    <<"rebase", "finished:", "refs/heads/" \o NameStr(branch_name), "onto", commit>>

\* "rebase finished: returning to refs/heads/<branch> onto <commit>"
ReturningOnto(branch_name, commit) ==
    <<"rebase", "finished:", "returning", "to",
      "refs/heads/" \o NameStr(branch_name), "onto", commit>>

\* "rebase finished: returning to refs/heads/<branch>", the line of the
\* fixtures in test_tagmyrebase.py
Returning(branch_name) ==
    <<"rebase", "finished:", "returning", "to", "refs/heads/" \o NameStr(branch_name)>>

Checkout(branch_name, commit) ==
    <<"checkout:", "moving", "from", NameStr(branch_name), "to", commit \o "^0">>

RebaseStep == <<"pull", "-r:", "Add", "mything">>

Aborting == <<"rebase:", "aborting">>

WellFormed(message) == RawLine(TRUE, TRUE, TRUE, message)

\* A line without the ">" that closes the identity.
NoIdentityEnd(message) == RawLine(FALSE, TRUE, TRUE, message)

\* A line that ends after the timezone: no tab, no message.
NoMessage == RawLine(TRUE, FALSE, TRUE, <<>>)

\* A line with no space between the ">" and the date.
NoSpace(message) == RawLine(TRUE, TRUE, FALSE, message)

\* The lines of branch_name's reflog in Spec.
Lines(branch_name) ==
    {WellFormed(FinishedOnto(branch_name, "c1")),
     WellFormed(FinishedOnto(branch_name, "c3")),
     WellFormed(ReturningOnto(branch_name, "c1")),
     WellFormed(Aborting),
     NoIdentityEnd(FinishedOnto(branch_name, "c1")),
     NoMessage}

\* The lines of branch_name's reflog in SpecLog.
RichLines(branch_name) ==
    Lines(branch_name) \cup
    {WellFormed(FinishedOnto(topic, "c3")),
     WellFormed(Returning(branch_name)),
     WellFormed(Checkout(branch_name, "c1")),
     WellFormed(RebaseStep),
     WellFormed(<<>>),
     NoSpace(Aborting)}

SeqsUpTo(S, n) == UNION {[1..k -> S] : k \in 0..n}

Args(tag_upstream, tag_head, branch_head) ==
    [tag_upstream |-> tag_upstream, tag_head |-> tag_head, branch_head |-> branch_head]

\* The command lines of Spec: none of the options; the docstring's sample
\* usage; one template for both tags; the branch alone.
CommandLines ==
    {Args(NoArg, NoArg, NoArg),
     Args(Template("U-", TRUE, FALSE), Template("good-", TRUE, FALSE),
          Template("good", FALSE, FALSE)),
     Args(Template("r-", TRUE, FALSE), Template("r-", TRUE, FALSE), NoArg),
     Args(NoArg, NoArg, Template("good", FALSE, FALSE))}

Tag(commit, annotated) == [commit |-> commit, annotated |-> annotated, message |-> ""]

\* The tags of the initial repository: none, or a lightweight tag of the first
\* day's first counter.
InitialTags ==
    {EmptyDict,
     Put(EmptyDict, Name("good-", <<1, 1>>, NoStamp), Tag("c1", FALSE))}

InitMain ==
    /\ pc = "idle"
    /\ exitStatus = NotRun
    /\ t = [ymd |-> 1, hms |-> 1]
    /\ refs = [tags |-> EmptyDict, heads |-> EmptyDict, HEAD |-> None]
    /\ upstream_commit = None
    /\ source = None
    /\ configQueries = 0
    /\ writes = <<>>

\* The branches of tips (None: no such branch) with their tips, and with
\* their reflog files.
Branches(tips) == {b \in DOMAIN tips : tips[b] # None}

\* master absent or at HEAD, topic absent, at HEAD or behind it; short reflogs.
Init ==
    /\ InitMain
    /\ HEAD = "c2"
    /\ \E tipMaster \in {None, "c2"}, tipTopic \in {None, "c1", "c2"} :
       \E lenMaster \in 0..(IF tipMaster = None THEN 0 ELSE MaxLogLines) :
       \E lenTopic \in 0..(IF tipTopic = None THEN 0 ELSE MaxLogLines - lenMaster) :
       \E logMaster \in [1..lenMaster -> Lines(master)],
          logTopic \in [1..lenTopic -> Lines(topic)] :
         LET tips == [b \in {master, topic} |-> IF b = master THEN tipMaster ELSE tipTopic]
         IN  /\ heads = [b \in Branches(tips) |-> tips[b]]
             /\ reflogs = [b \in Branches(tips) |-> IF b = master THEN logMaster ELSE logTopic]
    /\ tags \in InitialTags
    /\ config \in {"", "c1"}
    /\ args \in CommandLines

\* One branch at HEAD with a longer reflog of more kinds of lines.
InitLog ==
    /\ InitMain
    /\ HEAD = "c2"
    /\ heads = Put(EmptyDict, master, "c2")
    /\ \E log \in SeqsUpTo(RichLines(master), MaxLogLen) :
         reflogs = Put(EmptyDict, master, log)
    /\ tags = EmptyDict
    /\ config \in {"", "CalledProcessError", "c1"}
    /\ args = Args(Template("U-", TRUE, FALSE), Template("good-", TRUE, TRUE),
                   Template("good", FALSE, FALSE))

Spec == Init /\ [][Next]_vars

SpecLog == InitLog /\ [][Next]_vars

---------------------------------------------------------------------------
\* Vocabulary of the properties.

\* A tagging option was given, so main() resolves the upstream commit.
WantsUpstream == args.tag_head # NoArg \/ args.tag_upstream # NoArg

\* The running or last invocation is past its call of get_upstream_commit.
Attempted == WantsUpstream /\ pc \notin {"idle", "resolve"} /\ exitStatus.kind # "none"

\* ... and the reflogs are still those that call read.
AfterResolve == Attempted /\ \A i \in 1..Len(writes) : writes[i].cmd # "branch"

Returned(commit, provenance) == upstream_commit = commit /\ source = provenance

\* Resolution failed: main() printed its advice and left with sys.exit(2).
Failed == pc = "exit" /\ exitStatus.kind = "exit" /\ exitStatus.code = 2
          /\ upstream_commit = None /\ source = None

\* The invocation died of an exception raised while a reflog was parsed.
ParseErrors == {"ValueError", "IndexError", "RuntimeError"}

Crashed == pc = "exit" /\ exitStatus.kind = "exception" /\ exitStatus.exc \in ParseErrors
           /\ upstream_commit = None /\ source = None

Candidates == CandidateHeads(refs)

Parses(line) == line.gt /\ line.tab /\ line.sp

AllParse == \A b \in Candidates :
                b \in DOMAIN reflogs /\ \A i \in 1..Len(reflogs[b]) : Parses(reflogs[b][i])

\* The completion marker of branch b as git writes it to b's reflog.
IsCompletionMarker(line, b) == \E c \in Commits : line.message = FinishedOnto(b, c)

\* The completion marker as the specification words it.
IsReturningMarker(line, b) == \E c \in Commits : line.message = ReturningOnto(b, c)

MarkerIndexes(b) == {i \in 1..Len(reflogs[b]) : IsCompletionMarker(reflogs[b][i], b)}

\* The commit the chronologically last completion marker of b's reflog claims.
LatestClaim(b) ==
    LET indexes == MarkerIndexes(b)
    IN  IF indexes = {} THEN None
        ELSE LET last == CHOOSE i \in indexes : \A j \in indexes : j <= i
             IN  reflogs[b][last].message[Len(reflogs[b][last].message)]

Claims == {LatestClaim(b) : b \in Candidates} \ {None}

ConfiguredCommit == config \in Commits

---------------------------------------------------------------------------
\* C1

---------------------------------------------------------------------------
\* C2

---------------------------------------------------------------------------
\* C3

\* C3 as stated: a commit returned from the reflog is an ancestor of, or is,
\* the current position; a candidate that is not makes resolution fail.
C3_LogResultIsAncestor ==
    (Attempted /\ source = "reflog") => IsAncestor(upstream_commit, refs.HEAD)

---------------------------------------------------------------------------
\* C4

\* Two branches at HEAD whose latest completion markers claim different commits.
Disagree == \E a, b \in Candidates :
                LatestClaim(a) # None /\ LatestClaim(b) # None /\ LatestClaim(a) # LatestClaim(b)

---------------------------------------------------------------------------
\* C5

\* C5: when no branch is at HEAD, or no reflog of a branch at HEAD holds a
\* completion marker, the tracking configuration is queried exactly once and
\* decides: its commit with provenance "config", or failure when none is
\* configured.  When the reflogs agree on a commit, that commit is returned and
\* the configuration is not queried, whatever it holds.
C5_ConfigFallback ==
    /\ (AfterResolve /\ (Candidates = {} \/ (AllParse /\ Claims = {}))) =>
          /\ configQueries = 1
          /\ IF ConfiguredCommit THEN Returned(config, "config")
             ELSE Failed /\ exitStatus.why \in {"No upstream configured for branch",
                                                "CalledProcessError"}
    /\ \A u \in Commits :
          (AfterResolve /\ AllParse /\ Claims = {u}) =>
              Returned(u, "reflog") /\ configQueries = 0

\* HEAD on no branch, the tracking branch at c1: c1 is returned from the
\* configuration after one query.
C5_Witness ==
    /\ AfterResolve
    /\ Candidates = {}
    /\ config = "c1"
    /\ Returned("c1", "config")
    /\ configQueries = 1

---------------------------------------------------------------------------
\* C6

\* C6: a line without the ">" that closes the identity, anywhere in the reflog
\* of a branch at HEAD, ends the invocation with the parser's exception:
\* nothing is returned, the tracking configuration is not queried, nothing is
\* written; a newer completion marker in that or another reflog does not help.
C6_CorruptLineIsFatal ==
    ( /\ AfterResolve
      /\ \E b \in Candidates : \E i \in 1..Len(reflogs[b]) : ~reflogs[b][i].gt )
    => Crashed /\ configQueries = 0 /\ writes = <<>>

\* A malformed line followed by a newer, well-formed completion marker, a
\* tracking branch configured: the invocation died of ValueError.
C6_Witness ==
    /\ AfterResolve
    /\ master \in Candidates
    /\ Len(reflogs[master]) = 2
    /\ ~reflogs[master][1].gt
    /\ reflogs[master][2] = WellFormed(FinishedOnto(master, "c1"))
    /\ config = "c1"
    /\ Crashed
    /\ exitStatus.exc = "ValueError"

---------------------------------------------------------------------------
\* C7

\* C7 as stated: a line with all fields but no tab and no message parses to an
\* entry with the empty message, and the other lines of the reflog are yielded
\* in the file's order.
C7_NoMessageParses ==
    \A b \in Candidates :
        ( /\ AfterResolve
          /\ \A i \in 1..Len(reflogs[b]) : reflogs[b][i].gt /\ reflogs[b][i].sp )
        => /\ get_reflog_entries(b).ok
           /\ Len(get_reflog_entries(b).val) = Len(reflogs[b])
           /\ \A i \in 1..Len(reflogs[b]) :
                 get_reflog_entries(b).val[i].message =
                     (IF reflogs[b][i].tab THEN reflogs[b][i].message ELSE <<>>)
           /\ ~Crashed

---------------------------------------------------------------------------
\* C8

\* C8: a branch at HEAD whose reflog holds no completion marker contributes no
\* candidate and is no error.  A commit returned from the reflogs is the
\* latest claim of a branch that holds a marker; the branches that hold one
\* decide when they agree; when none holds one the reflog path finds no rebase
\* and the tracking configuration is queried.
C8_MarkerlessLogContributesNothing ==
    (AfterResolve /\ AllParse) =>
        /\ source = "reflog" =>
              \E b \in Candidates : LatestClaim(b) # None /\ upstream_commit = LatestClaim(b)
        /\ \A u \in Commits : Claims = {u} => Returned(u, "reflog")
        /\ (Candidates # {} /\ Claims = {}) =>
              /\ get_upstream_commit_from_reflog(refs) =
                     {Raise("UnknownUpstream", "Could not find a rebase in reflogs")}
              /\ source # "reflog"
              /\ configQueries = 1

\* topic's reflog holds an aborted rebase only, master's a completed one onto
\* c1, both are at HEAD: c1 is returned from the reflog.
C8_Witness ==
    /\ AfterResolve
    /\ Candidates = {master, topic}
    /\ reflogs[topic] = <<WellFormed(Aborting)>>
    /\ reflogs[master] = <<WellFormed(FinishedOnto(master, "c1"))>>
    /\ Returned("c1", "reflog")

---------------------------------------------------------------------------
\* C9

\* C9 as stated: a tag is never created under a name that is a tag's already
\* at the moment of creation, in either tagging step of any invocation.
C9_NoTagCollision ==
    \A i \in 1..Len(writes) : writes[i].cmd = "tag" => ~writes[i].existed

---------------------------------------------------------------------------
\* C10

\* C10: the upstream commit is decided before the first write command, and an
\* invocation whose resolution fails ends there: no tag is created, no branch
\* created or moved, --branch-head given or not.
C10_NoWriteBeforeResolution ==
    /\ pc = "resolve" => writes = <<>>
    /\ (Attempted /\ upstream_commit = None) =>
          /\ pc = "exit"
          /\ writes = <<>>
          /\ heads = refs.heads
          /\ get_refs.tags = refs.tags

\* Resolution failed in an invocation that was given --branch-head.
C10_Witness ==
    /\ Failed
    /\ Attempted
    /\ args.branch_head = Template("good", FALSE, FALSE)
    /\ Plain("good") \notin DOMAIN heads
    /\ writes = <<>>

====
